---- MODULE Spec2Model ----
(***************************************************************************)
(* A model of the rest_core toolkit: HttpHeaders (an insertion-ordered     *)
(* dict of header name -> value), Token (validity and persistence),        *)
(* Resource/Action path composition, and the HTTPClient / RestClient       *)
(* request pipeline.                                                       *)
(*                                                                         *)
(* Python values are modelled as follows.                                  *)
(*   dict          a sequence of <<key, value>> pairs with distinct keys,  *)
(*                 in insertion order                                      *)
(*   None          the record NoneObj where objects are expected, the      *)
(*                 string NoneStr where strings are expected               *)
(*   str           a TLA+ string; values that are not str (an int passed   *)
(*                 where a str is expected) are the members of NonStr      *)
(*   datetime      an integer count of clock ticks, SubSec ticks a second  *)
(***************************************************************************)
EXTENDS Integers, Sequences, FiniteSets, TLC

VARIABLES
    hA,         \* HttpHeaders spec: the receiver's _headers dict
    hB,         \* HttpHeaders spec: the other operand (a Python object)
    hRes,       \* HttpHeaders spec: outcome of the last operation
    now,        \* the clock (datetime.now()), in ticks
    tok,        \* Token spec: the Token under test, or NoneObj
    tokArg,     \* Token spec: the arguments tok was constructed with
    tokFile,    \* Token spec: the token file
    tokSaved,   \* Token spec: the Token last written to the file by save_token
    tokRes,     \* Token spec: outcome of get_saved_token on tokFile
    pIn,        \* path spec: the Resource, its Action and the call's arguments
    pOut,       \* path spec: outcome of get_action_path_part
    client,     \* the HTTPClient / RestClient object
    call,       \* the caller's current call: arguments, request sent, outcome
    uIn,        \* URL spec: the client, its one resource and the call's arguments
    uOut,       \* URL spec: outcome of RestClient.request up to the transport
    sess,       \* session spec: the client's Session
    holder,     \* session spec: an AiohttpSessionHolder and its session
    owner,      \* session spec: the RestClient that uses sess
    flights,    \* session spec: the requests in flight, by task
    closeRes,   \* session spec: the last close operation and its outcome
    authObj,    \* Auth spec: the Auth object
    authRes,    \* Auth spec: the last operation on authObj and its outcome
    api,        \* API client spec: the BaseAPIClient, its services and sessions
    tasks       \* API client spec: the asyncio tasks calling the client

vars == <<hA, hB, hRes, now, tok, tokArg, tokFile, tokSaved, tokRes, pIn, pOut,
          client, call, uIn, uOut, sess, holder, owner, flights, closeRes,
          authObj, authRes, api, tasks>>
cvars == <<client, call>>
pvars == <<pIn, pOut>>
hvars == <<hA, hB, hRes>>
tvars == <<now, tok, tokArg, tokFile, tokSaved, tokRes>>
uvars == <<uIn, uOut>>
svars == <<sess, holder, owner, flights, closeRes>>
avars == <<authObj, authRes>>
xvars == <<api, tasks>>

(***************************************************************************)
(* Python objects and dicts                                                *)
(***************************************************************************)
NoneObj == [kind |-> "None"]
NoneStr == "<None>"

\* no call made yet, or a call that has not ended
NoResult == [kind |-> "none"]

\* values that are not instances of str
NonStr == {"<int 7>"}
IsStr(x) == x \notin NonStr

\* bool(x) of a str: the empty string is falsy
StrTruthy(s) == s # NoneStr /\ s # ""

RECURSIVE DictIndex(_, _, _)
\* position of key k in dict d at or after i, 0 when absent
DictIndex(d, k, i) ==
    IF i > Len(d) THEN 0
    ELSE IF d[i][1] = k THEN i
    ELSE DictIndex(d, k, i + 1)

\* k in d
DictHas(d, k) == DictIndex(d, k, 1) # 0

\* d.get(k)
DictGet(d, k) ==
    IF DictHas(d, k) THEN d[DictIndex(d, k, 1)][2] ELSE NoneStr

\* d[k] = v : an existing key keeps its position, a new key is appended
DictSet(d, k, v) ==
    IF DictHas(d, k)
    THEN [d EXCEPT ![DictIndex(d, k, 1)] = <<k, v>>]
    ELSE Append(d, <<k, v>>)

RECURSIVE DictUpdateFrom(_, _, _)
DictUpdateFrom(d, items, i) ==
    IF i > Len(items) THEN d
    ELSE DictUpdateFrom(DictSet(d, items[i][1], items[i][2]), items, i + 1)

\* d.update(dict(items)) : later items win
DictUpdate(d, items) == DictUpdateFrom(d, DictUpdateFrom(<<>>, items, 1), 1)

\* del d[k] for a key that is present
DictDel(d, k) ==
    LET i == DictIndex(d, k, 1)
    IN  SubSeq(d, 1, i - 1) \o SubSeq(d, i + 1, Len(d))

DictKeys(d) == {d[i][1] : i \in 1..Len(d)}

(***************************************************************************)
(* HttpHeaders                                                             *)
(***************************************************************************)
\* an HttpHeaders instance, identified with its _headers dict
HttpHeadersObj(d) == [kind |-> "HttpHeaders", headers |-> d]
\* a plain iterable of pairs handed where headers are expected
ItemsObj(items) == [kind |-> "items", items |-> items]

\* HttpHeaders.check_header_items: an iterable whose items are all 2-tuples of str
check_header_items(obj) ==
    /\ obj.kind = "items"
    /\ \A i \in 1..Len(obj.items) :
           /\ Len(obj.items[i]) = 2
           /\ IsStr(obj.items[i][1])
           /\ IsStr(obj.items[i][2])

\* HttpHeaders.update_header: items are taken only when truthy and well formed
update_header(d, obj) ==
    IF obj.kind = "items" /\ Len(obj.items) > 0 /\ check_header_items(obj)
    THEN DictUpdate(d, obj.items)
    ELSE d

\* HttpHeaders.init_headers: clear_headers, then update_header
init_headers(d, obj) == update_header(<<>>, obj)

\* HttpHeaders.__init__(items): the new instance's _headers
HttpHeadersNew(obj) == init_headers(<<>>, obj)

\* HttpHeaders.compatible_obj: the other operand's items, or NoneObj
compatible_obj(obj) ==
    IF obj.kind = "HttpHeaders" THEN ItemsObj(obj.headers)
    ELSE IF check_header_items(obj) THEN obj
    ELSE NoneObj

Raise(exc) == [kind |-> "raise", exc |-> exc]
IsRaise(r) == r.kind = "raise"

\* a left-biased merge: keys already in the receiver keep their value
AddLeftBiased(d, obj) ==
    LET other == compatible_obj(obj)
    IN  IF other = NoneObj THEN Raise("ArithmeticError")
        ELSE HttpHeadersObj(HttpHeadersNew(ItemsObj(DictUpdate(other.items, d))))

\* HttpHeaders.__add__: a new instance holding a copy of the receiver updated
\* with the other operand
HttpHeadersAdd(d, obj) ==
    LET other == compatible_obj(obj)
    IN  IF other = NoneObj THEN Raise("ArithmeticError")
        ELSE HttpHeadersObj(HttpHeadersNew(ItemsObj(DictUpdate(d, other.items))))

\* HttpHeaders.__iadd__: the receiver's _headers updated in place with the
\* other operand; the operand is tested by truth value, so None and an empty
\* collection of items are both refused
HttpHeadersIAdd(d, obj) ==
    LET other == compatible_obj(obj)
    IN  IF other = NoneObj \/ Len(other.items) = 0
        THEN [out |-> Raise("ArithmeticError"), headers |-> d]
        ELSE [out |-> HttpHeadersObj(DictUpdate(d, other.items)),
              headers |-> DictUpdate(d, other.items)]

(***************************************************************************)
(* Token (client/rest_core/token.py)                                       *)
(***************************************************************************)
SubSec == 2     \* clock ticks in one second: datetime has sub-second precision

\* Optional[int]: <<>> is None, <<n>> is the int n
NoneInt == <<>>
Some(n) == <<n>>
\* bool(x) of an Optional[int]: None and 0 are falsy
IntTruthy(o) == o # NoneInt /\ o[1] # 0

TokenObj(t, it, be) ==
    [kind |-> "Token", token |-> t, initialization_time |-> it,
     before_expiration |-> be]

\* Token.__init__ at time clock: a missing or future initialization_time
\* becomes the current time; before_expiration is kept only when truthy
TokenNew(t, itArg, beArg, clock) ==
    TokenObj(t,
             IF itArg = NoneInt \/ itArg[1] > clock THEN clock ELSE itArg[1],
             IF IntTruthy(beArg) THEN beArg ELSE NoneInt)

\* Token.is_valid at time clock
is_valid(t, clock) ==
    IF IntTruthy(t.before_expiration)
    THEN t.initialization_time + t.before_expiration[1] * SubSec > clock
    ELSE TRUE

\* JSON values
JStr(s) == [t |-> "str", v |-> s]
JIso(parts) == [t |-> "iso", iso |-> parts]     \* a str in ISO-8601 format
JInt(n) == [t |-> "int", v |-> n]
JNull == [t |-> "null"]

\* the value of key k of a JSON object (a dict) that has k
DictAt(d, k) == d[DictIndex(d, k, 1)][2]

\* datetime.isoformat() cut to whole seconds
IsoformatSeconds(t) == <<t \div SubSec>>

\* datetime.isoformat(): <<seconds>> when the sub-second part is 0,
\* <<seconds, fraction>> otherwise
isoformat(t) ==
    IF t % SubSec = 0 THEN <<t \div SubSec>>
    ELSE <<t \div SubSec, t % SubSec>>

\* datetime.fromisoformat() of an ISO-8601 str
fromisoformat(parts) ==
    parts[1] * SubSec + (IF Len(parts) = 2 THEN parts[2] ELSE 0)

\* TokenEncoder.default: a datetime as its isoformat(), any other object as
\* its __dict__
TokenEncoder_default(t) ==
    << <<"token", JStr(t.token)>>,
       <<"initialization_time", JIso(isoformat(t.initialization_time))>>,
       <<"before_expiration",
         IF t.before_expiration = NoneInt THEN JNull
         ELSE JInt(t.before_expiration[1])>> >>

\* Token.to_json: json.dumps(self, cls=TokenEncoder)
to_json(t) == TokenEncoder_default(t)

\* a JSON number or null read back as Optional[int]
JsonOptInt(j) == IF j.t = "int" THEN Some(j.v) ELSE NoneInt

\* token_json_dict_decoder: the arguments of Token(...) are evaluated in
\* order; a KeyError is caught and gives None, any other error propagates
token_json_dict_decoder(data, clock) ==
    IF ~DictHas(data, "token") THEN NoneObj
    ELSE IF ~DictHas(data, "initialization_time") THEN NoneObj
    ELSE IF DictAt(data, "initialization_time").t # "iso"
         THEN Raise("ValueError")
    ELSE IF ~DictHas(data, "before_expiration") THEN NoneObj
    ELSE TokenNew(DictAt(data, "token").v,
                  Some(fromisoformat(DictAt(data, "initialization_time").iso)),
                  JsonOptInt(DictAt(data, "before_expiration")),
                  clock)

NoFile == [exists |-> FALSE]
FileOf(json) == [exists |-> TRUE, json |-> json]

\* Token.get_saved_token: None when the file does not exist, else json.load
\* with token_json_dict_decoder as object_hook
get_saved_token(file, clock) ==
    IF ~file.exists THEN NoneObj
    ELSE token_json_dict_decoder(file.json, clock)

\* Token.save_token: writes to_json() of a Token, does nothing for None
save_token(t, file) ==
    IF t.kind = "Token" THEN FileOf(to_json(t)) ELSE file

(***************************************************************************)
(* Action and Resource (rest_core/action.py, rest_core/resource.py)        *)
(*                                                                         *)
(* A path template is the sequence of its pieces, "{}" for a replacement   *)
(* field and a str for literal text; <<>> is the template None or "".      *)
(* A list of path parameters is a sequence; <<>> is None or an empty list  *)
(* (the code only tests these for truth).                                  *)
(***************************************************************************)
ActionObjectObj(n) == [kind |-> "ActionObject", name |-> n]

\* Action.__init__
ActionObj(n, method, path, path_params, headers, objects) ==
    [kind |-> "Action", name |-> n, method |-> method, path |-> path,
     path_params |-> path_params, headers |-> headers, objects |-> objects]

\* Resource.__init__: headers or HttpHeaders(); no action yet
ResourceObj(n, headers, path, path_params) ==
    [kind |-> "Resource", name |-> n,
     headers |-> IF headers = NoneObj THEN <<>> ELSE headers.headers,
     path |-> path, path_params |-> path_params, actions |-> <<>>]

\* Resource.add_action: self.actions[act.name] = act, for a truthy name
add_action(res, act) ==
    IF act.kind = "Action" /\ StrTruthy(act.name)
    THEN [res EXCEPT !.actions = DictSet(res.actions, act.name, act)]
    ELSE res

\* Resource.create_action: builds the Action (headers or HttpHeaders(), no
\* objects) and stores it under its name, whatever the name
create_action(res, n, method, path, path_params, headers) ==
    LET action == ActionObj(n, method, path, path_params,
                            IF headers = NoneObj THEN HttpHeadersObj(<<>>)
                            ELSE headers,
                            <<>>)
    IN  [res EXCEPT !.actions = DictSet(res.actions, n, action)]

\* Action.add_object: self.objects[obj.name] = obj, for a truthy name
add_object(act, obj) ==
    IF obj.kind = "ActionObject" /\ StrTruthy(obj.name)
    THEN [act EXCEPT !.objects = DictSet(act.objects, obj.name, obj)]
    ELSE act

\* Resource.get_action (the later definition in the class): self.actions.get
get_action(res, action_name) ==
    IF DictHas(res.actions, action_name) THEN DictAt(res.actions, action_name)
    ELSE NoneObj

\* Resource.get_action_attr: ApiActionNotFound for an unknown action
get_action_attr(res, action_name, attr) ==
    LET action == get_action(res, action_name)
    IN  IF action = NoneObj THEN Raise("ApiActionNotFound")
        ELSE [kind |-> "value", v |-> action[attr]]

\* Action.get_obj: self.objects.get(obj_name) for a truthy str obj_name
get_obj(act, obj_name) ==
    IF StrTruthy(obj_name) /\ IsStr(obj_name) /\ DictHas(act.objects, obj_name)
    THEN DictAt(act.objects, obj_name)
    ELSE NoneObj

RECURSIVE JoinFrom(_, _, _)
JoinFrom(sep, parts, i) ==
    IF i > Len(parts) THEN ""
    ELSE IF i = Len(parts) THEN parts[i]
    ELSE parts[i] \o sep \o JoinFrom(sep, parts, i + 1)

\* sep.join(parts)
Join(sep, parts) == JoinFrom(sep, parts, 1)

RECURSIVE FormatFrom(_, _, _, _)
\* str.format from piece i on, the next automatic field being number n
FormatFrom(tpl, parts, i, n) ==
    IF i > Len(tpl) THEN [kind |-> "str", v |-> ""]
    ELSE IF tpl[i] = "{}"
         THEN IF n > Len(parts) THEN Raise("IndexError")
              ELSE LET tail == FormatFrom(tpl, parts, i + 1, n + 1)
                   IN  IF IsRaise(tail) THEN tail
                       ELSE [kind |-> "str", v |-> parts[n] \o tail.v]
    ELSE LET tail == FormatFrom(tpl, parts, i + 1, n)
         IN  IF IsRaise(tail) THEN tail
             ELSE [kind |-> "str", v |-> tpl[i] \o tail.v]

\* template.format(*parts): fields are filled left to right; arguments
\* beyond the last field are ignored; a field without an argument raises
\* IndexError
Format(tpl, parts) == FormatFrom(tpl, parts, 1, 1)

NumFields(tpl) == Cardinality({i \in 1..Len(tpl) : tpl[i] = "{}"})

\* the parameter list of get_action_path_part with the action's own
\* parameters appended to the explicit ones
ChoosePartsMixed(res, action, args) ==
    IF Len(args) > 0 THEN args \o action.path_params
    ELSE IF Len(action.path_params) > 0 THEN action.path_params
    ELSE res.path_params

\* Resource.get_action_path_part, the parameter list: args, else the
\* action's path_params, else the resource's
ChooseParts(res, action, args) ==
    IF Len(args) > 0 THEN args
    ELSE IF Len(action.path_params) > 0 THEN action.path_params
    ELSE res.path_params

\* url_part with the object's name put before the parameters
ComposeUrlPartObjFirst(name, params_part, obj) ==
    LET withObj == IF obj # NoneObj THEN name \o "/" \o obj.name ELSE name
    IN  IF StrTruthy(params_part) THEN withObj \o "/" \o params_part
        ELSE withObj

\* Resource.get_action_path_part, url_part: the action's name, then
\* params_part when truthy, then the name of the object when there is one
ComposeUrlPart(name, params_part, obj) ==
    LET withParams == IF StrTruthy(params_part)
                      THEN name \o "/" \o params_part ELSE name
    IN  IF obj # NoneObj THEN withParams \o "/" \o obj.name ELSE withParams

\* Resource.get_action_path_part: the composed url_part (NoneStr for an
\* unknown action), the parameter list and params_part it was built from,
\* or the error raised
get_action_path_part(res, action_name, obj_name, args) ==
    LET action == get_action(res, action_name) IN
    IF action = NoneObj
    THEN [kind |-> "path", url_part |-> NoneStr, parts |-> <<>>,
          params_part |-> NoneStr]
    ELSE
    LET parts == ChooseParts(res, action, args)
        usable == Len(parts) > 0 /\ \A i \in 1..Len(parts) : IsStr(parts[i])
        formatted == IF usable /\ Len(action.path) > 0
                     THEN Format(action.path, parts)
                     ELSE [kind |-> "str", v |-> NoneStr]
        params_part == IF ~usable THEN NoneStr
                       ELSE IF Len(action.path) > 0 THEN formatted.v
                       ELSE Join("/", parts)
    IN  IF IsRaise(formatted) THEN Raise("ActionURLMatchError")
        ELSE [kind |-> "path",
              url_part |-> ComposeUrlPart(action.name, params_part,
                                          get_obj(action, obj_name)),
              parts |-> parts,
              params_part |-> params_part]

(***************************************************************************)
(* HTTPClient (Client/rest_core/http_client.py) and RestClient             *)
(* (rest_core/rest_client.py)                                              *)
(*                                                                         *)
(* The client object is the record held by the variable client: url, auth  *)
(* (a BasicAuth, NoneStr for None), headers (the _headers dict of its      *)
(* HttpHeaders), token and resources (a dict name -> Resource).            *)
(***************************************************************************)
\* HTTPClient.__init__
HTTPClientObj(url, auth, headers) ==
    [url |-> url, auth |-> auth,
     headers |-> IF headers = NoneObj THEN <<>> ELSE headers.headers,
     token |-> NoneObj, resources |-> <<>>]

\* HTTPClient.token setter: a Token is stored only if valid at that time
token_setter(t, clock) ==
    IF t.kind = "Token" /\ is_valid(t, clock) THEN t ELSE NoneObj

\* HttpHeaders.set_header_value
set_header_value(d, k, v) == IF IsStr(k) /\ IsStr(v) THEN DictSet(d, k, v) ELSE d

\* HttpHeaders.del_headers_item: whatever the key, removes "Authorization"
del_headers_item(d, key) ==
    IF IsStr(key) /\ DictHas(d, "Authorization")
    THEN DictDel(d, "Authorization") ELSE d

\* HTTPClient.clear_auth_head
clear_auth_head(d) == del_headers_item(d, "Authorization")

\* HTTPClient.set_auth_head, on the client's own headers
set_auth_head(d, token) ==
    IF token # NoneObj THEN set_header_value(d, "Authorization", token.token)
    ELSE clear_auth_head(d)

\* an add_resource that keeps the Resource already registered under the name
AddResourceKeepFirst(c, res) ==
    IF res.kind = "Resource" /\ ~DictHas(c.resources, res.name)
    THEN [c EXCEPT !.resources = DictSet(c.resources, res.name, res)]
    ELSE c

\* RestClient.add_resource
add_resource(c, res) ==
    IF res.kind = "Resource"
    THEN [c EXCEPT !.resources = DictSet(c.resources, res.name, res)]
    ELSE c

\* RestClient.remove_resource
remove_resource(c, res_name) ==
    IF DictHas(c.resources, res_name)
    THEN [c EXCEPT !.resources = DictDel(c.resources, res_name)]
    ELSE c

\* RestClient.remove_resource, the value returned: the popped Resource, or None
remove_resource_out(c, res_name) ==
    IF DictHas(c.resources, res_name)
    THEN DictAt(c.resources, res_name) ELSE NoneObj

\* RestClient.get_resource
get_resource(c, resource_name) ==
    IF DictHas(c.resources, resource_name)
    THEN DictAt(c.resources, resource_name) ELSE NoneObj

\* make_request, the auth handed to the transport, with the auth argument
\* winning over an Authorization header
PickAuthArgFirst(headers, auth, selfAuth) ==
    IF auth # NoneStr THEN auth
    ELSE IF DictHas(headers, "Authorization") THEN NoneStr
    ELSE selfAuth

\* make_request, the auth handed to the transport: none when the headers
\* hold Authorization, else the argument, else the client's own
PickAuth(headers, auth, selfAuth) ==
    IF DictHas(headers, "Authorization") THEN NoneStr
    ELSE IF auth # NoneStr THEN auth
    ELSE selfAuth

\* make_request, the URL, with the separator put in whatever the parts are
MakeUrlAlwaysJoin(selfUrl, url_part) ==
    (IF selfUrl = NoneStr THEN "" ELSE selfUrl) \o "/" \o
        (IF url_part = NoneStr THEN "" ELSE url_part)

\* make_request, the URL: self.url/url_part, or the one that is not empty
MakeUrl(selfUrl, url_part) ==
    IF StrTruthy(selfUrl) /\ StrTruthy(url_part)
    THEN selfUrl \o "/" \o url_part
    ELSE IF StrTruthy(selfUrl) THEN selfUrl
    ELSE url_part

\* make_request when auth is required: a token is stored and is valid now
TokenUsable(c, clock) == c.token # NoneObj /\ is_valid(c.token, clock)

ReturnNone == [kind |-> "return", value |-> NoneObj]

\* HTTPClient.make_request up to the transport call. a is the record of the
\* arguments (method, url_part, auth, headers, auth_required). Gives the
\* client's headers as the call leaves them, and either the value returned
\* at once or the request handed to the transport.
make_request(c, a, clock) ==
    LET usable == TokenUsable(c, clock)
        selfHeaders == IF a.auth_required /\ usable
                       THEN set_auth_head(c.headers, c.token)
                       ELSE c.headers
        \* headers or self.headers: with no argument the client's own object
        headers == IF a.headers = NoneObj THEN selfHeaders
                   ELSE a.headers.headers
        url == MakeUrl(c.url, a.url_part)
    IN  IF a.auth_required /\ ~usable
        THEN [headers |-> c.headers, out |-> ReturnNone, wire |-> NoneObj]
        ELSE IF ~StrTruthy(url)
        THEN [headers |-> selfHeaders, out |-> ReturnNone, wire |-> NoneObj]
        ELSE [headers |-> selfHeaders, out |-> NoResult,
              wire |-> [kind |-> "request", method |-> a.method, url |-> url,
                        auth |-> PickAuth(headers, a.auth, c.auth),
                        headers |-> headers]]

\* RestClient.get_url_part for a registered resource
get_url_part(res, action_name, obj_name, args) ==
    LET app == get_action_path_part(res, action_name, obj_name, args) IN
    IF IsRaise(app) THEN app
    ELSE IF StrTruthy(res.path)
         THEN [kind |-> "str",
               v |-> IF StrTruthy(app.url_part)
                     THEN Join("/", <<res.path, app.url_part>>)
                     ELSE res.path]
         ELSE [kind |-> "str", v |-> app.url_part]

\* request headers with the resource's layer applied last
LayerHeadersResourceLast(c, res, actionHeaders) ==
    LET ca == HttpHeadersAdd(c.headers, actionHeaders) IN
    IF IsRaise(ca) THEN ca
    ELSE HttpHeadersAdd(ca.headers, HttpHeadersObj(res.headers))

\* RestClient.request, the headers:
\* self.headers + res.headers + res.get_headers(action_name)
LayerHeaders(c, res, actionHeaders) ==
    LET cr == HttpHeadersAdd(c.headers, HttpHeadersObj(res.headers)) IN
    IF IsRaise(cr) THEN cr
    ELSE HttpHeadersAdd(cr.headers, actionHeaders)

\* RestClient.request up to the transport call; a is the record of the
\* arguments (resource_name, action_name, obj_name, args, auth)
request(c, a, clock) ==
    LET res == get_resource(c, a.resource_name)
        method == get_action_attr(res, a.action_name, "method")
        url_part == get_url_part(res, a.action_name, a.obj_name, a.args)
        hdrs == LayerHeaders(c, res,
                             get_action_attr(res, a.action_name, "headers").v)
        failed(e) == [headers |-> c.headers, out |-> e, wire |-> NoneObj]
    IN  IF res = NoneObj THEN failed(ReturnNone)
        ELSE IF IsRaise(method) THEN failed(method)
        ELSE IF IsRaise(url_part) THEN failed(url_part)
        ELSE IF IsRaise(hdrs) THEN failed(hdrs)
        ELSE make_request(c,
                          [method |-> method.v, url_part |-> url_part.v,
                           auth |-> a.auth, headers |-> hdrs,
                           auth_required |-> FALSE],
                          clock)

\* a Python value held in a response: a str, an int, a dict (a sequence of
\* <<key, value>> pairs) or None
PyStr(v) == [kind |-> "str", v |-> v]
PyInt(v) == [kind |-> "int", v |-> v]
PyDict(v) == [kind |-> "dict", v |-> v]

\* json.loads(text) for the response bodies of the model: the decoded value
\* of a JSON text, JSONDecodeError for any other text (the empty one too)
j_loads(text) ==
    CASE text = "{\"id\": 7}" -> PyDict(<< <<"id", PyInt(7)>> >>)
      [] text = "\"pong\"" -> PyStr("pong")
      [] text = "7" -> PyInt(7)
      [] text = "null" -> NoneObj
      [] OTHER -> Raise("JSONDecodeError")

\* make_request, the data of the response: json.loads(text), or the text
\* itself when that raises
ResponseData(text) ==
    LET decoded == j_loads(text) IN
    IF IsRaise(decoded) THEN PyStr(text) ELSE decoded

\* every exception of the transport call reported as an internal error
MakeRequestFinishUnclassified(reply) ==
    IF reply.kind # "response" THEN Raise("ApiInternalError")
    ELSE IF ~StrTruthy(reply.body) THEN Raise("UnboundLocalError")
    ELSE IF reply.model = "invalid" THEN Raise("DataValidationError")
    ELSE IF reply.model = "error" THEN Raise("DataFormatError")
    ELSE [kind |-> "return",
          value |-> [kind |-> "Response", data |-> ResponseData(reply.body)]]

\* make_request after the transport call. reply is what the transport did:
\* kind "timeout", "connect", "response_error" or "other" for an exception
\* of session._request (or of the timeout scope around it), kind "response"
\* with the body text and what building the response model does with the
\* data ("ok", "invalid" for a ValidationError, "error" for another
\* exception). With an empty body the name response is never bound.
make_request_finish(reply) ==
    IF reply.kind = "timeout" THEN Raise("HttpClientTimeotError")
    ELSE IF reply.kind = "connect" THEN Raise("HttpClientConnectionError")
    ELSE IF reply.kind = "response_error" THEN Raise("HttpClientResponseError")
    ELSE IF reply.kind = "other" THEN Raise("ApiInternalError")
    ELSE IF ~StrTruthy(reply.body) THEN Raise("UnboundLocalError")
    ELSE IF reply.model = "invalid" THEN Raise("DataValidationError")
    ELSE IF reply.model = "error" THEN Raise("DataFormatError")
    ELSE [kind |-> "return",
          value |-> [kind |-> "Response", data |-> ResponseData(reply.body)]]

\* except Exception as exception: logger.error(...); raise (exception):
\* the exception caught is the exception raised
LogAndReraise(e) == e


\* HTTPClient.get after its make_request call gave r
get_finish(r) == IF IsRaise(r) THEN LogAndReraise(r) ELSE r

\* HTTPClient.post after its make_request call gave r
post_finish(r) == IF IsRaise(r) THEN LogAndReraise(r) ELSE r

\* RestClient.request after its make_request call gave r
request_finish(r) == IF IsRaise(r) THEN LogAndReraise(r) ELSE r

\* the outcome of a call of op whose transport call did reply
FinishVia(op, reply) ==
    LET r == make_request_finish(reply) IN
    CASE op = "get" -> get_finish(r)
      [] op = "post" -> post_finish(r)
      [] op = "request" -> request_finish(r)
      [] OTHER -> r

(***************************************************************************)
(* Bounds and input alphabets of the HttpHeaders specification             *)
(***************************************************************************)
MaxHdr == 2     \* entries in a header set drawn as input

HeaderKeys == {"Accept", "Authorization", "Content-Type"}
HeaderValues == {"text/plain", "application/json"}

\* every dict over HeaderKeys/HeaderValues with at most MaxHdr entries
HeaderDicts ==
    {d \in UNION {[1..n -> HeaderKeys \X HeaderValues] : n \in 0..MaxHdr} :
        \A i, j \in 1..Len(d) : i # j => d[i][1] # d[j][1]}

\* the variables of the Token specification, idle
TokIdle ==
    /\ now = 0
    /\ tok = NoneObj
    /\ tokArg = NoneObj
    /\ tokFile = NoFile
    /\ tokSaved = NoneObj
    /\ tokRes = NoResult

\* the variables of the client specification, idle
ClientIdle ==
    /\ client = NoneObj
    /\ call = NoResult

\* the variables of the path specification, idle
PathIdle ==
    /\ pIn = NoneObj
    /\ pOut = NoResult

\* the variables of the URL specification, idle
UrlIdle ==
    /\ uIn = NoneObj
    /\ uOut = NoResult

\* the variables of the session specification, idle
SessIdle ==
    /\ sess = NoneObj
    /\ holder = NoneObj
    /\ owner = NoneObj
    /\ flights = <<>>
    /\ closeRes = NoResult

\* the variables of the Auth specification, idle
AuthIdle ==
    /\ authObj = NoneObj
    /\ authRes = NoResult

\* the variables of the API client specification, idle
ApiIdle ==
    /\ api = NoneObj
    /\ tasks = <<>>

HInit ==
    /\ UrlIdle
    /\ SessIdle
    /\ AuthIdle
    /\ ApiIdle
    /\ TokIdle
    /\ PathIdle
    /\ ClientIdle
    /\ hA \in HeaderDicts
    /\ hB \in {HttpHeadersObj(d) : d \in HeaderDicts} \cup {NoneObj}
    /\ hRes = NoResult

\* hA + hB
HAdd ==
    /\ hRes = NoResult
    /\ hRes' = [op |-> "add", out |-> HttpHeadersAdd(hA, hB)]
    /\ UNCHANGED <<hA, hB>>
    /\ UNCHANGED <<tvars, pvars, cvars, uvars, svars, avars, xvars>>

\* A += B
HIAdd ==
    /\ hRes = NoResult
    /\ LET r == HttpHeadersIAdd(hA, hB)
       IN  /\ hA' = r.headers
           /\ hRes' = [op |-> "iadd", out |-> r.out, before |-> hA]
    /\ UNCHANGED hB
    /\ UNCHANGED <<tvars, pvars, cvars, uvars, svars, avars, xvars>>

\* A.del_headers_item(key)
HDel ==
    /\ hRes = NoResult
    /\ \E key \in HeaderKeys :
           /\ hA' = del_headers_item(hA, key)
           /\ hRes' = [op |-> "del", key |-> key, before |-> hA]
    /\ UNCHANGED hB
    /\ UNCHANGED <<tvars, pvars, cvars, uvars, svars, avars, xvars>>

HNext == HAdd \/ HIAdd \/ HDel

SpecHeaders == HInit /\ [][HNext]_vars

(***************************************************************************)
(* C2: merge(A, B) maps every key of B to B's value, every other key of A  *)
(* to A's value, and has no key that is in neither A nor B.                *)
(***************************************************************************)
C2_MergeRightBiased ==
    (hRes # NoResult /\ hRes.op = "add" /\ hB.kind = "HttpHeaders") =>
        /\ hRes.out.kind = "HttpHeaders"
        /\ \A k \in HeaderKeys :
              DictGet(hRes.out.headers, k) =
                  IF k \in DictKeys(hB.headers) THEN DictGet(hB.headers, k)
                  ELSE DictGet(hA, k)
        /\ DictKeys(hRes.out.headers) = DictKeys(hA) \cup DictKeys(hB.headers)

\* a merge in which both operands hold the same key with different values
C2_Witness ==
    /\ hRes # NoResult /\ hRes.op = "add" /\ hB.kind = "HttpHeaders"
    /\ \E k \in DictKeys(hA) \cap DictKeys(hB.headers) :
           DictGet(hA, k) # DictGet(hB.headers, k)
    /\ \E k \in DictKeys(hA) : k \notin DictKeys(hB.headers)

(***************************************************************************)
(* C21: del_headers_item with a key other than "Authorization" leaves the  *)
(* whole header set unchanged, an Authorization entry included; with the   *)
(* key "Authorization" it removes exactly that entry.                      *)
(***************************************************************************)
C21_DelRemovesOnlyTheKey ==
    (hRes # NoResult /\ hRes.op = "del") =>
        IF hRes.key = "Authorization"
        THEN /\ ~DictHas(hA, "Authorization")
             /\ \A k \in HeaderKeys \ {"Authorization"} :
                    DictGet(hA, k) = DictGet(hRes.before, k)
        ELSE hA = hRes.before

(***************************************************************************)
(* C22: A += B leaves in A exactly merge(A, B) for every HttpHeaders B,    *)
(* the empty one included, and fails only where merge fails.               *)
(***************************************************************************)
C22_IAddIsMerge ==
    (hRes # NoResult /\ hRes.op = "iadd" /\ hB.kind = "HttpHeaders") =>
        LET m == HttpHeadersAdd(hRes.before, hB)
        IN  IF IsRaise(m) THEN IsRaise(hRes.out)
            ELSE /\ ~IsRaise(hRes.out)
                 /\ hA = m.headers

(***************************************************************************)
(* The Token specification: a clock, one Token, one token file             *)
(***************************************************************************)
MaxTime == 4    \* the clock stops after MaxTime ticks
MaxTtl == 2     \* before_expiration arguments range over -1..MaxTtl, and None

TokenValues == {"tokA", "tokB"}
TimeArgs == {NoneInt} \cup {Some(t) : t \in 0..MaxTime}
TtlArgs == {NoneInt} \cup {Some(n) : n \in -1..MaxTtl}

\* token files not written by save_token: any of the three keys may be
\* missing, and initialization_time may hold a str that is not a date
OptEntry(present, k, v) == IF present THEN << <<k, v>> >> ELSE <<>>
ForeignFiles ==
    {OptEntry(hasT, "token", JStr("tokA"))
        \o OptEntry(it # "absent", "initialization_time",
                    IF it = "iso" THEN JIso(<<0>>) ELSE JStr("not-a-date"))
        \o OptEntry(be # "absent", "before_expiration",
                    IF be = "int" THEN JInt(1) ELSE JNull) :
     hasT \in BOOLEAN, it \in {"absent", "iso", "bad"},
     be \in {"absent", "null", "int"}}

TokenFileKeys == {"token", "initialization_time", "before_expiration"}

HdrIdle ==
    /\ hA = <<>>
    /\ hB = NoneObj
    /\ hRes = NoResult

TInit ==
    /\ UrlIdle
    /\ SessIdle
    /\ AuthIdle
    /\ ApiIdle
    /\ HdrIdle
    /\ TokIdle
    /\ PathIdle
    /\ ClientIdle

\* time passes
Tick ==
    /\ now < MaxTime
    /\ now' = now + 1
    /\ UNCHANGED <<tok, tokArg, tokFile, tokSaved, tokRes>>
    /\ UNCHANGED <<hvars, pvars, cvars, uvars, svars, avars, xvars>>

\* tok = Token(v, initialization_time=it, before_expiration=be)
TokConstruct ==
    \E v \in TokenValues, it \in TimeArgs, be \in TtlArgs :
        /\ tok' = TokenNew(v, it, be, now)
        /\ tokArg' = [before_expiration |-> be]
        /\ UNCHANGED <<now, tokFile, tokSaved, tokRes>>
        /\ UNCHANGED <<hvars, pvars, cvars, uvars, svars, avars, xvars>>

\* tok.save(filename)
TokSave ==
    /\ tok # NoneObj
    /\ tokFile' = save_token(tok, tokFile)
    /\ tokSaved' = tok
    /\ tokRes' = NoResult
    /\ UNCHANGED <<now, tok, tokArg>>
    /\ UNCHANGED <<hvars, pvars, cvars, uvars, svars, avars, xvars>>

\* some other program writes the token file
TokForeignWrite ==
    \E json \in ForeignFiles :
        /\ tokFile' = FileOf(json)
        /\ tokSaved' = NoneObj
        /\ tokRes' = NoResult
        /\ UNCHANGED <<now, tok, tokArg>>
        /\ UNCHANGED <<hvars, pvars, cvars, uvars, svars, avars, xvars>>

\* Token.get_saved_token(filename)
TokLoad ==
    /\ tokRes' = [op |-> "load", out |-> get_saved_token(tokFile, now)]
    /\ UNCHANGED <<now, tok, tokArg, tokFile, tokSaved>>
    /\ UNCHANGED <<hvars, pvars, cvars, uvars, svars, avars, xvars>>

TNext == Tick \/ TokConstruct \/ TokSave \/ TokForeignWrite \/ TokLoad

SpecToken == TInit /\ [][TNext]_vars

(***************************************************************************)
(* C5: is_valid() is true exactly when the Token was constructed without a *)
(* TTL or issuedAt + ttlSeconds > now, for every integer ttlSeconds given  *)
(* at construction, zero included.                                         *)
(***************************************************************************)
C5_IsValidIffNoTtlOrUnexpired ==
    tok # NoneObj =>
        (is_valid(tok, now) <=>
            \/ tokArg.before_expiration = NoneInt
            \/ tok.initialization_time
                   + tokArg.before_expiration[1] * SubSec > now)

(***************************************************************************)
(* C6: get_saved_token after save gives a Token with the same token,       *)
(* initialization_time and before_expiration as the Token saved.           *)
(***************************************************************************)
C6_SaveLoadRoundTrip ==
    (tokRes # NoResult /\ tokSaved # NoneObj) =>
        /\ tokRes.out.kind = "Token"
        /\ tokRes.out.token = tokSaved.token
        /\ tokRes.out.initialization_time = tokSaved.initialization_time
        /\ tokRes.out.before_expiration = tokSaved.before_expiration

\* a Token with a sub-second initialization_time and a TTL, loaded back at a
\* later time than it was saved
C6_Witness ==
    /\ tokRes # NoResult /\ tokSaved # NoneObj
    /\ tokSaved.initialization_time % SubSec # 0
    /\ tokSaved.before_expiration # NoneInt
    /\ tokSaved.initialization_time < now
    /\ tokRes.out.kind = "Token"

(***************************************************************************)
(* C7: loading a token file whose JSON object lacks one of the keys token, *)
(* initialization_time, before_expiration returns None and raises nothing. *)
(***************************************************************************)
C7_MissingKeyGivesNone ==
    (/\ tokRes # NoResult
     /\ tokFile.exists
     /\ \E k \in TokenFileKeys : ~DictHas(tokFile.json, k)) =>
        tokRes.out = NoneObj

(***************************************************************************)
(* The path specification: one Resource holding one Action, and one call   *)
(* of get_action_path_part                                                 *)
(***************************************************************************)
MaxArgs == 3    \* explicit path arguments in a call

ArgValues == {"12", "34"} \cup NonStr
Templates == {<<>>, <<"{}">>, <<"{}", "/", "{}", "/detail">>, <<"detail">>}
ActionParams == {<<>>, <<"a1">>, <<"a1", "a2">>}
ResourceParams == {<<>>, <<"r1">>, <<"r1", "r2", "r3">>}
\* objects registered by add_object, and one held under another key
ObjectMaps ==
    {<<>>,
     add_object(ActionObj("act", "GET", <<>>, <<>>, NoneObj, <<>>),
                ActionObjectObj("items")).objects,
     << <<"alias", ActionObjectObj("items")>> >>}
ObjNames == {NoneStr, "", "items", "alias", "missing"}
ArgLists == UNION {[1..n -> ArgValues] : n \in 0..MaxArgs}

PInit ==
    /\ UrlIdle
    /\ SessIdle
    /\ AuthIdle
    /\ ApiIdle
    /\ HdrIdle
    /\ TokIdle
    /\ ClientIdle
    /\ pOut = NoResult
    /\ \E tpl \in Templates, ap \in ActionParams, rp \in ResourceParams,
          objs \in ObjectMaps, args \in ArgLists, on \in ObjNames,
          an \in {"act", "other"} :
         pIn = [resource |-> add_action(ResourceObj("res", NoneObj, "res", rp),
                                        ActionObj("act", "GET", tpl, ap,
                                                  NoneObj, objs)),
                action_name |-> an, obj_name |-> on, args |-> args]

\* resource.get_action_path_part(action_name, obj_name, *args)
PathCompose ==
    /\ pOut = NoResult
    /\ pOut' = get_action_path_part(pIn.resource, pIn.action_name,
                                    pIn.obj_name, pIn.args)
    /\ UNCHANGED pIn
    /\ UNCHANGED <<hvars, tvars, cvars, uvars, svars, avars, xvars>>

PNext == PathCompose

SpecPath == PInit /\ [][PNext]_vars

\* the Action of the call, when the action name is known
PAction == get_action(pIn.resource, pIn.action_name)
PKnown == pOut # NoResult /\ PAction # NoneObj

\* the first non-empty of the three candidate lists
FirstNonEmpty(cands) ==
    IF \E i \in 1..Len(cands) : cands[i] # <<>>
    THEN cands[CHOOSE i \in 1..Len(cands) :
                   cands[i] # <<>> /\ \A j \in 1..(i - 1) : cands[j] = <<>>]
    ELSE <<>>
PChosen ==
    FirstNonEmpty(<<pIn.args, PAction.path_params,
                    pIn.resource.path_params>>)
AllStr(parts) == \A i \in 1..Len(parts) : IsStr(parts[i])

(***************************************************************************)
(* C8: the parameter list substituted into the path is the first non-empty *)
(* of the explicit arguments, the Action's path_params and the Resource's  *)
(* path_params; nothing of a lower candidate is mixed in.                  *)
(***************************************************************************)
C8_FirstNonEmptyParams ==
    (PKnown /\ pOut.kind = "path" /\ pOut.params_part # NoneStr) =>
        /\ pOut.parts = PChosen
        /\ PAction.path = <<>> => pOut.params_part = Join("/", PChosen)

\* explicit arguments win although the Action and the Resource have their own
C8_Witness ==
    /\ PKnown /\ pOut.kind = "path" /\ pOut.params_part # NoneStr
    /\ pIn.args # <<>>
    /\ PAction.path_params # <<>>
    /\ pIn.resource.path_params # <<>>
    /\ PAction.path = <<>>

(***************************************************************************)
(* C9: with a path template, the composition fails with                    *)
(* ActionURLMatchError whenever the number of parameters differs from the  *)
(* number of template placeholders, fewer or more.                         *)
(***************************************************************************)
C9_LengthMismatchFails ==
    (/\ PKnown
     /\ PAction.path # <<>>
     /\ PChosen # <<>>
     /\ AllStr(PChosen)
     /\ Len(PChosen) # NumFields(PAction.path)) =>
        pOut = Raise("ActionURLMatchError")

H(d) == HttpHeadersObj(d)

\* the resources a caller registers
UsersResource ==
    add_action(
        add_action(ResourceObj("users", NoneObj, "users", <<>>),
                   ActionObj("list", "GET", <<>>, <<>>,
                             H(<< <<"Accept", "application/json">> >>), <<>>)),
        ActionObj("get", "GET", <<"{}">>, <<>>, NoneObj, <<>>))
ItemsResource ==
    add_action(
        ResourceObj("items",
                    H(<< <<"Authorization", "Bearer X">>,
                         <<"Accept", "application/json">> >>),
                    "", <<>>),
        ActionObj("list", "POST", <<>>, <<>>,
                  H(<< <<"Accept", "text/plain">> >>), <<>>))
Catalogue == {UsersResource, ItemsResource}

ClientHeaderSets ==
    {<<>>, << <<"Accept", "text/plain">>, <<"Content-Type", "text/plain">> >>}

MakeRequestArgs ==
    [method : {"GET"}, url_part : {"", "ping"}, auth : {NoneStr, "argAuth"},
     headers : {NoneObj, H(<<>>), H(<< <<"Authorization", "Bearer X">> >>)},
     auth_required : BOOLEAN]

RequestArgs ==
    [resource_name : {"users", "items"}, action_name : {"list", "get", "nope"},
     obj_name : {NoneStr}, args : {<<>>, <<"12">>}, auth : {NoneStr, "argAuth"}]

Replies ==
    [kind : {"timeout", "connect", "response_error", "other"}]
        \cup [kind : {"response"}, body : {"", "{\"id\": 7}", "pong"},
              model : {"ok", "invalid", "error"}]

Idle == call = NoResult

CInit ==
    /\ UrlIdle
    /\ SessIdle
    /\ AuthIdle
    /\ ApiIdle
    /\ HdrIdle
    /\ PathIdle
    /\ now = 0
    /\ tok = NoneObj
    /\ tokArg = NoneObj
    /\ tokFile = NoFile
    /\ tokSaved = NoneObj
    /\ tokRes = NoResult
    /\ \E url \in {"http://h", ""}, auth \in {NoneStr, "clientAuth"},
          hs \in ClientHeaderSets :
         client = HTTPClientObj(url, auth, H(hs))
    /\ call = NoResult

others == <<hvars, pvars, tok, tokFile, tokSaved, tokRes, uvars, svars, avars, xvars>>

\* time passes
ClockTick ==
    /\ Idle
    /\ now < MaxTime
    /\ now' = now + 1
    /\ UNCHANGED <<client, call, tokArg, others>>

\* client.token = Token(v, before_expiration=be)
SetToken ==
    /\ Idle
    /\ \E be \in TtlArgs :
         /\ client' = [client EXCEPT
                          !.token = token_setter(
                                        TokenNew("tokA", NoneInt, be, now), now)]
         /\ tokArg' = [before_expiration |-> be]
    /\ UNCHANGED <<now, call, others>>

\* client.add_resource(res)
AddResource ==
    /\ Idle
    /\ \E res \in Catalogue : client' = add_resource(client, res)
    /\ UNCHANGED <<now, call, tokArg, others>>

\* client.remove_resource(name)
RemoveResource ==
    /\ Idle
    /\ \E n \in {"users", "items"} : client' = remove_resource(client, n)
    /\ UNCHANGED <<now, call, tokArg, others>>

\* the call record of a call that gave r
CallRecord(op, a, r, before) ==
    [op |-> op, args |-> a, out |-> r.out, wire |-> r.wire,
     headersBefore |-> before]

\* await client.make_request(...), up to the transport call
MakeRequest ==
    /\ Idle
    /\ \E a \in MakeRequestArgs :
         LET r == make_request(client, a, now) IN
         /\ client' = [client EXCEPT !.headers = r.headers]
         /\ call' = CallRecord("make_request", a, r, client.headers)
    /\ UNCHANGED <<now, tokArg, others>>

\* await client.request(...), up to the transport call
Request ==
    /\ Idle
    /\ \E a \in RequestArgs :
         LET r == request(client, a, now) IN
         /\ client' = [client EXCEPT !.headers = r.headers]
         /\ call' = CallRecord("request", a, r, client.headers)
    /\ UNCHANGED <<now, tokArg, others>>

\* the transport call ends, and make_request with it
TransportReply ==
    /\ call # NoResult
    /\ call.wire # NoneObj
    /\ call.out = NoResult
    /\ \E reply \in Replies :
         call' = [call EXCEPT !.out = FinishVia(call.op, reply)]
    /\ UNCHANGED <<now, client, tokArg, others>>

\* the caller has the outcome of its call and goes on
CallDone ==
    /\ call # NoResult
    /\ call.out # NoResult
    /\ call' = NoResult
    /\ UNCHANGED <<now, client, tokArg, others>>

Next ==
    \/ ClockTick \/ SetToken \/ AddResource \/ RemoveResource
    \/ MakeRequest \/ Request \/ TransportReply \/ CallDone

Spec == CInit /\ [][Next]_vars

\* a request is with the transport
Sent(op) == call # NoResult /\ call.op = op /\ call.wire # NoneObj

(***************************************************************************)
(* C1: the headers of the request RestClient.request sends are, key by     *)
(* key, the action's value if the action's headers have the key, else the  *)
(* resource's if the resource's headers have it, else the client's.        *)
(***************************************************************************)
C1_HeaderLayers ==
    Sent("request") =>
        LET res == get_resource(client, call.args.resource_name)
            act == get_action(res, call.args.action_name).headers.headers
        IN  \A k \in HeaderKeys :
               DictGet(call.wire.headers, k) =
                   IF k \in DictKeys(act) THEN DictGet(act, k)
                   ELSE IF k \in DictKeys(res.headers)
                        THEN DictGet(res.headers, k)
                   ELSE DictGet(call.headersBefore, k)

\* client Accept=text/plain, resource {}, action Accept=application/json
C1_Witness ==
    /\ Sent("request")
    /\ DictGet(call.headersBefore, "Accept") = "text/plain"
    /\ get_resource(client, call.args.resource_name).headers = <<>>
    /\ call.args.action_name = "list"
    /\ DictGet(call.wire.headers, "Accept") = "application/json"
    /\ DictGet(call.wire.headers, "Content-Type") = "text/plain"

(***************************************************************************)
(* C3: a request whose headers hold Authorization goes to the transport    *)
(* with no auth; otherwise it goes with the auth argument, or with the     *)
(* client's stored auth when no argument was given.                        *)
(***************************************************************************)
C3_HeaderAuthWins ==
    Sent("make_request") =>
        IF "Authorization" \in DictKeys(call.wire.headers)
        THEN call.wire.auth = NoneStr
        ELSE call.wire.auth =
                 IF call.args.auth # NoneStr THEN call.args.auth
                 ELSE client.auth

\* headers with Authorization: Bearer X and an explicit auth argument
C3_Witness ==
    /\ Sent("make_request")
    /\ call.args.auth = "argAuth"
    /\ client.auth = "clientAuth"
    /\ DictGet(call.wire.headers, "Authorization") = "Bearer X"
    /\ call.wire.auth = NoneStr

(***************************************************************************)
(* C4: make_request with authRequired and no token, or a token that has    *)
(* expired by the time of the call, returns None and sends nothing.        *)
(***************************************************************************)
\* the stored token's TTL, as given at construction, has run out
TokenExpired ==
    /\ client.token # NoneObj
    /\ tokArg.before_expiration # NoneInt
    /\ client.token.initialization_time
           + tokArg.before_expiration[1] * SubSec <= now

C4_NoValidTokenNoRequest ==
    (/\ call # NoResult
     /\ call.op = "make_request"
     /\ call.args.auth_required
     /\ (client.token = NoneObj \/ TokenExpired)) =>
        /\ call.out = ReturnNone
        /\ call.wire = NoneObj

(***************************************************************************)
(* C12: RestClient.request for a resource name that is not registered      *)
(* ends with a classified routing error and sends nothing.                 *)
(***************************************************************************)
\* the exception classes of rest_core/exceptions.py for a failed lookup
RoutingErrors ==
    {"ActionNotFound", "ApiActionNotFound", "ApiResourceNotFound",
     "ResourceNotAppendToApi"}

C12_UnregisteredResourceFails ==
    (/\ call # NoResult
     /\ call.op = "request"
     /\ get_resource(client, call.args.resource_name) = NoneObj) =>
        /\ IsRaise(call.out)
        /\ call.out.exc \in RoutingErrors
        /\ call.wire = NoneObj

(***************************************************************************)
(* C13: make_request sends to self.url/url_part when both are non-empty,   *)
(* to the non-empty one when only one is, and with both empty it fails     *)
(* with a URL error and sends nothing.                                     *)
(***************************************************************************)
\* the exception classes of rest_core/exceptions.py for a URL that cannot
\* be built
UrlErrors == {"ApiUrlError", "ActionURLMatchError"}

C13_NoUrlFails ==
    (/\ call # NoResult
     /\ call.op = "make_request"
     /\ ~call.args.auth_required) =>
        LET base == client.url
            part == call.args.url_part
        IN  IF StrTruthy(base) /\ StrTruthy(part)
            THEN call.wire # NoneObj /\ call.wire.url = base \o "/" \o part
            ELSE IF StrTruthy(base)
            THEN call.wire # NoneObj /\ call.wire.url = base
            ELSE IF StrTruthy(part)
            THEN call.wire # NoneObj /\ call.wire.url = part
            ELSE /\ IsRaise(call.out)
                 /\ call.out.exc \in UrlErrors
                 /\ call.wire = NoneObj

(***************************************************************************)
(* The URL specification: a client with one resource and one action, and   *)
(* one call of RestClient.request up to the transport call                 *)
(***************************************************************************)
BaseUrls == {NoneStr, "", "http://h"}
ResourcePaths == {"", "users", "api/users"}
ActionNames == {"", "list"}

UInit ==
    /\ HdrIdle
    /\ TokIdle
    /\ PathIdle
    /\ ClientIdle
    /\ SessIdle
    /\ AuthIdle
    /\ ApiIdle
    /\ \E base \in BaseUrls, path \in ResourcePaths, n \in ActionNames,
          obj \in {NoneStr, "items"}, args \in {<<>>, <<"12">>} :
         LET r0 == create_action(ResourceObj("res", NoneObj, path, <<>>),
                                 n, "GET", <<>>, <<>>, NoneObj)
             res == [r0 EXCEPT !.actions =
                        DictSet(r0.actions, n,
                                add_object(DictAt(r0.actions, n),
                                           ActionObjectObj("items")))]
         IN  uIn = [client |-> add_resource(
                                   HTTPClientObj(base, NoneStr, NoneObj), res),
                    args |-> [resource_name |-> "res", action_name |-> n,
                              obj_name |-> obj, args |-> args,
                              auth |-> NoneStr]]
    /\ uOut = NoResult

\* await client.request("res", n, obj, *args), up to the transport call
UrlRequest ==
    /\ uOut = NoResult
    /\ uOut' = request(uIn.client, uIn.args, 0)
    /\ UNCHANGED uIn
    /\ UNCHANGED <<hvars, tvars, pvars, cvars, svars, avars, xvars>>

UNext == UrlRequest

SpecUrl == UInit /\ [][UNext]_vars

\* the three parts of the call's URL: base URL, resource path, action path
UParts ==
    LET res == get_resource(uIn.client, "res")
        app == get_action_path_part(res, uIn.args.action_name,
                                    uIn.args.obj_name, uIn.args.args)
    IN  <<uIn.client.url, res.path, app.url_part>>

\* a request went to the transport
USent == uOut # NoResult /\ uOut.wire # NoneObj

(***************************************************************************)
(* C11: the URL of a request that is sent is its non-empty parts among     *)
(* base URL, resource path and composed action path, in that order, with   *)
(* exactly one "/" between adjacent parts and nothing before or after.     *)
(***************************************************************************)
C11_UrlJoin ==
    USent => uOut.wire.url = Join("/", SelectSeq(UParts, StrTruthy))

\* no base URL and no action path: the URL is the resource path alone
C11_Witness ==
    /\ USent
    /\ ~StrTruthy(UParts[1])
    /\ UParts[2] = "api/users"
    /\ UParts[3] = ""
    /\ uOut.wire.url = "api/users"

(***************************************************************************)
(* The session specification: one Session shared by the tasks of one event *)
(* loop, each task awaiting one call at a time on the same client          *)
(***************************************************************************)
MaxTasks == 2
Tasks == 1..MaxTasks
Ops == {"make_request", "get", "post", "request"}

\* what the transport call of a request can do
Bodies == {"", "{\"id\": 7}", "pong", "\"pong\"", "null"}
SessionReplies ==
    [kind : {"timeout", "connect", "response_error", "other"}]
        \cup [kind : {"response"}, body : Bodies,
              model : {"ok", "invalid", "error"}]

\* Session.__init__ (an aiohttp.ClientSession): open
SessionObj == [kind |-> "Session", closed |-> FALSE]

\* a close that refuses a session that is closed already
SessionCloseOnce(s) ==
    IF s.closed THEN [session |-> s, out |-> Raise("RuntimeError")]
    ELSE [session |-> [s EXCEPT !.closed = TRUE],
          out |-> [kind |-> "return", value |-> NoneObj]]

\* aiohttp.ClientSession.close, awaited: closes the connector if the
\* session is not closed yet, and returns None either way
session_close(s) ==
    [session |-> [s EXCEPT !.closed = TRUE],
     out |-> [kind |-> "return", value |-> NoneObj]]

FlightIdle == [state |-> "idle"]
FlightFlying(op) == [state |-> "flying", op |-> op]
FlightDone(op, reply) ==
    [state |-> "done", op |-> op, reply |-> reply,
     out |-> FinishVia(op, reply)]

\* the timeout scope of every task expires together and the session closes
ExpireEverything(s, fs, i) ==
    [sess |-> [s EXCEPT !.closed = TRUE],
     flights |-> [j \in DOMAIN fs |->
                    IF fs[j].state = "flying"
                    THEN FlightDone(fs[j].op, [kind |-> "timeout"])
                    ELSE fs[j]]]

\* make_request of task i, `with timeout(request_timeout)` expires: the
\* scope cancels the task that entered it and raises asyncio.TimeoutError
\* there; the handler raises HttpClientTimeotError and touches nothing else
timeout_expires(s, fs, i) ==
    [sess |-> s,
     flights |-> [fs EXCEPT ![i] = FlightDone(fs[i].op, [kind |-> "timeout"])]]

SInit ==
    /\ HdrIdle
    /\ TokIdle
    /\ PathIdle
    /\ ClientIdle
    /\ UrlIdle
    /\ AuthIdle
    /\ ApiIdle
    /\ sess = SessionObj
    /\ holder = NoneObj
    /\ owner = NoneObj
    /\ flights = [i \in Tasks |-> FlightIdle]
    /\ closeRes = NoResult

sothers == <<hvars, tvars, pvars, cvars, uvars, avars, xvars, holder, owner>>

\* task i awaits get / post / request / make_request and reaches
\* session._request; on a closed session that raises RuntimeError at once
StartCall(i) ==
    /\ flights[i].state = "idle"
    /\ \E op \in Ops :
         flights' = [flights EXCEPT ![i] =
                        IF sess.closed THEN FlightDone(op, [kind |-> "other"])
                        ELSE FlightFlying(op)]
    /\ UNCHANGED <<sess, closeRes, sothers>>

\* the transport call of task i ends with a reply
TransportEnds(i) ==
    /\ flights[i].state = "flying"
    /\ \E reply \in SessionReplies :
         flights' = [flights EXCEPT ![i] = FlightDone(flights[i].op, reply)]
    /\ UNCHANGED <<sess, closeRes, sothers>>

\* the timeout of task i's request expires
TimeoutExpires(i) ==
    /\ flights[i].state = "flying"
    /\ LET r == timeout_expires(sess, flights, i) IN
         /\ sess' = r.sess
         /\ flights' = r.flights
    /\ UNCHANGED <<closeRes, sothers>>

\* task i has the outcome of its call and goes on
TaskGoesOn(i) ==
    /\ flights[i].state = "done"
    /\ flights' = [flights EXCEPT ![i] = FlightIdle]
    /\ UNCHANGED <<sess, closeRes, sothers>>

\* await client.close_session()
CloseSession ==
    /\ LET r == session_close(sess) IN
         /\ closeRes' = [op |-> "close_session", wasClosed |-> sess.closed,
                         out |-> r.out]
         /\ sess' = r.session
    /\ UNCHANGED <<flights, sothers>>

SNext ==
    \/ \E i \in Tasks : StartCall(i)
    \/ \E i \in Tasks : TransportEnds(i)
    \/ \E i \in Tasks : TimeoutExpires(i)
    \/ \E i \in Tasks : TaskGoesOn(i)
    \/ CloseSession

SpecSession == SInit /\ [][SNext]_vars

\* task i's call has ended
Done(i) == flights[i].state = "done"

(***************************************************************************)
(* C14: a call whose transport call failed ends by raising the error class *)
(* of that failure (timeout, connection, response, internal for anything   *)
(* else), whether it was made through make_request, get, post or           *)
(* RestClient.request; it returns no value.                                *)
(***************************************************************************)
ErrorClassOf ==
    [timeout |-> "HttpClientTimeotError",
     connect |-> "HttpClientConnectionError",
     response_error |-> "HttpClientResponseError",
     other |-> "ApiInternalError"]

C14_TransportErrorsClassified ==
    \A i \in Tasks :
        (Done(i) /\ flights[i].reply.kind # "response") =>
            flights[i].out = Raise(ErrorClassOf[flights[i].reply.kind])

\* a connect failure under get, a response error under RestClient.request
C14_Witness ==
    /\ Done(1)
    /\ flights[1].op = "get"
    /\ flights[1].reply.kind = "connect"
    /\ flights[1].out = Raise("HttpClientConnectionError")
    /\ Done(2)
    /\ flights[2].op = "request"
    /\ flights[2].reply.kind = "response_error"
    /\ flights[2].out = Raise("HttpClientResponseError")

(***************************************************************************)
(* C15: when the transport call completes and the response model accepts   *)
(* the data, the call returns a response whose data is the decoded value   *)
(* of a body that is valid JSON and the raw body text of any other body.   *)
(***************************************************************************)
ValidJson == {"{\"id\": 7}", "\"pong\"", "7", "null"}

C15_NonJsonBodyKept ==
    \A i \in Tasks :
        (/\ Done(i)
         /\ flights[i].reply.kind = "response"
         /\ flights[i].reply.model = "ok") =>
            /\ flights[i].out.kind = "return"
            /\ flights[i].out.value.kind = "Response"
            /\ flights[i].out.value.data =
                   IF flights[i].reply.body \in ValidJson
                   THEN j_loads(flights[i].reply.body)
                   ELSE PyStr(flights[i].reply.body)

(***************************************************************************)
(* C16: when the timeout of one request expires, that request ends with    *)
(* the timeout error; every other task's request is left as it was, still  *)
(* in flight or with the outcome it had, and the session stays as it was.  *)
(***************************************************************************)
C16_TimeoutIsLocal ==
    [][\A i \in Tasks :
          (/\ flights[i].state = "flying"
           /\ flights'[i].state = "done"
           /\ flights'[i].reply.kind = "timeout") =>
              /\ flights'[i].out = Raise("HttpClientTimeotError")
              /\ sess' = sess
              /\ \A j \in Tasks \ {i} : flights'[j] = flights[j]]_vars

\* task 1 timed out, task 2 is still in flight on the open session
C16_Witness ==
    /\ Done(1)
    /\ flights[1].reply.kind = "timeout"
    /\ flights[1].out = Raise("HttpClientTimeotError")
    /\ flights[2].state = "flying"
    /\ ~sess.closed

(***************************************************************************)
(* The lifecycle specification: a caller that may hold a Session of its    *)
(* own, one RestClient from construction to destruction, and one           *)
(* AiohttpSessionHolder                                                    *)
(***************************************************************************)
\* an Auth passed to RestClient, and aiohttp.BasicAuth(*auth.auth)
AuthArg == [kind |-> "Auth", username |-> "user", password |-> "pass"]
BasicAuth(auth) ==
    [kind |-> "BasicAuth", login |-> auth.username, password |-> auth.password]

\* RestClient.__init__(session=session, auth=auth): a Session is created
\* when none is passed, and the client remembers that it did; basic_auth is
\* bound only when auth is an Auth, and is read whatever auth is
RestClientInit(session, auth) ==
    IF auth.kind = "Auth"
    THEN [owner |-> [kind |-> "RestClient", alive |-> TRUE,
                     session_must_be_closed |-> (session = NoneObj),
                     auth |-> BasicAuth(auth)],
          session |-> IF session = NoneObj THEN SessionObj ELSE session,
          out |-> ReturnNone]
    ELSE [owner |-> NoneObj, session |-> session,
          out |-> Raise("UnboundLocalError")]

\* RestClient.__del__: self.session.close() is called and not awaited; the
\* call only creates a coroutine object, whose body never runs
RestClientDel(o, s) ==
    [owner |-> [o EXCEPT !.alive = FALSE], session |-> s]

\* Session.__aexit__: await self.close(); return None
session_aexit(s) == session_close(s)

\* HTTPClient.close_session: await self.session.close()
close_session(s) == session_close(s)

\* AiohttpSessionHolder.__init__: no session yet
HolderObj == [kind |-> "AiohttpSessionHolder", session |-> NoneObj,
              closed |-> FALSE]

\* AiohttpSessionHolder._session_in_working_order
session_in_working_order(h) == h.session # NoneObj /\ ~h.session.closed

\* AiohttpSessionHolder.get_session: the session it has if that is open,
\* else a new one
holder_get_session(h) ==
    IF session_in_working_order(h) THEN h
    ELSE [h EXCEPT !.session = SessionObj]

\* AiohttpSessionHolder.close
holder_close(h) ==
    LET r == IF session_in_working_order(h) THEN session_close(h.session)
             ELSE [session |-> h.session,
                   out |-> [kind |-> "return", value |-> NoneObj]]
    IN  [holder |-> [h EXCEPT !.session = r.session, !.closed = TRUE],
         out |-> r.out]

LInit ==
    /\ HdrIdle
    /\ TokIdle
    /\ PathIdle
    /\ ClientIdle
    /\ UrlIdle
    /\ AuthIdle
    /\ ApiIdle
    /\ sess \in {NoneObj, SessionObj}
    /\ holder = HolderObj
    /\ owner = NoneObj
    /\ flights = <<>>
    /\ closeRes = NoResult

lothers == <<hvars, tvars, pvars, cvars, uvars, avars, xvars, flights>>

\* client = RestClient(..., session=sess, auth=auth), sess being None or the
\* caller's, auth being None or an Auth
Construct ==
    /\ owner = NoneObj
    /\ \E auth \in {NoneObj, AuthArg} :
         LET r == RestClientInit(sess, auth) IN
         /\ owner' = r.owner
         /\ sess' = r.session
         /\ closeRes' = [op |-> "__init__", wasClosed |-> FALSE,
                         auth |-> auth, out |-> r.out]
    /\ UNCHANGED <<holder, lothers>>

\* await client.close_session()
ClientCloseSession ==
    /\ owner # NoneObj
    /\ owner.alive
    /\ LET r == close_session(sess) IN
         /\ closeRes' = [op |-> "close_session", wasClosed |-> sess.closed,
                         out |-> r.out]
         /\ sess' = r.session
    /\ UNCHANGED <<holder, owner, lothers>>

\* the caller leaves an `async with session:` block
SessionAexit ==
    /\ sess # NoneObj
    /\ LET r == session_aexit(sess) IN
         /\ closeRes' = [op |-> "__aexit__", wasClosed |-> sess.closed,
                         out |-> r.out]
         /\ sess' = r.session
    /\ UNCHANGED <<holder, owner, lothers>>

\* the last reference to the client goes away
Destroy ==
    /\ owner # NoneObj
    /\ owner.alive
    /\ LET r == RestClientDel(owner, sess) IN
         /\ owner' = r.owner
         /\ sess' = r.session
    /\ closeRes' = [op |-> "__del__", wasClosed |-> sess.closed,
                    out |-> [kind |-> "return", value |-> NoneObj]]
    /\ UNCHANGED <<holder, lothers>>

\* await holder.get_session()
HolderGetSession ==
    /\ holder' = holder_get_session(holder)
    /\ closeRes' = NoResult
    /\ UNCHANGED <<sess, owner, lothers>>

\* await holder.close()
HolderClose ==
    /\ LET r == holder_close(holder) IN
         /\ closeRes' = [op |-> "holder.close",
                         wasClosed |-> (/\ holder.session # NoneObj
                                        /\ holder.session.closed),
                         out |-> r.out]
         /\ holder' = r.holder
    /\ UNCHANGED <<sess, owner, lothers>>

LNext ==
    \/ Construct \/ ClientCloseSession \/ SessionAexit \/ Destroy
    \/ HolderGetSession \/ HolderClose

SpecLifecycle == LInit /\ [][LNext]_vars

(***************************************************************************)
(* C17: a close of a session that is already closed, through               *)
(* HTTPClient.close_session, Session.__aexit__ or                          *)
(* AiohttpSessionHolder.close, returns without an error and the session is *)
(* still closed.                                                           *)
(***************************************************************************)
C17_SecondCloseNoOp ==
    (closeRes # NoResult /\ closeRes.op # "__del__" /\ closeRes.wasClosed) =>
        /\ closeRes.out = [kind |-> "return", value |-> NoneObj]
        /\ IF closeRes.op = "holder.close"
           THEN holder.session.closed /\ holder.closed
           ELSE sess.closed

\* the holder's session was closed by a first close and close ran again
C17_Witness ==
    /\ closeRes # NoResult
    /\ closeRes.op = "holder.close"
    /\ closeRes.wasClosed
    /\ holder.session.closed

(***************************************************************************)
(* C18: once a RestClient that created its own Session has been destroyed, *)
(* that Session is closed; destroying a RestClient that was given a        *)
(* Session leaves that Session as it was.                                  *)
(***************************************************************************)
C18_OwnSessionClosedOnDestroy ==
    (owner # NoneObj /\ ~owner.alive) =>
        IF owner.session_must_be_closed THEN sess.closed
        ELSE (closeRes.op = "__del__" => sess.closed = closeRes.wasClosed)

(***************************************************************************)
(* Auth (rest_core/auth.py)                                                *)
(*                                                                         *)
(* A str held by an Auth is the sequence of its code points; a username or *)
(* password is such a str or None.                                         *)
(***************************************************************************)
Chars(cs) == [kind |-> "str", chars |-> cs]

\* bool(value) of an Optional[str]
CharsTruthy(value) == value # NoneObj /\ value.chars # <<>>

\* str.isascii
isascii(cs) == \A i \in 1..Len(cs) : cs[i] < 128

\* a check that lets any password through
ValidateAsciiUsernameOnly(value, field_name) ==
    IF field_name = "username" /\ CharsTruthy(value) /\ ~isascii(value.chars)
    THEN Raise("ApiUsernameFormatError")
    ELSE ReturnNone

\* Auth._validate_ascii
validate_ascii(value, field_name) ==
    IF CharsTruthy(value) /\ ~isascii(value.chars)
    THEN Raise("ApiUsernameFormatError")
    ELSE ReturnNone

\* Auth.username setter: gives the object as the call leaves it and the
\* outcome of the call
username_setter(a, username) ==
    LET r == validate_ascii(username, "username") IN
    IF IsRaise(r) THEN [auth |-> a, out |-> r]
    ELSE [auth |-> [a EXCEPT !.username = username], out |-> ReturnNone]

\* Auth.password setter
password_setter(a, password) ==
    LET r == validate_ascii(password, "password") IN
    IF IsRaise(r) THEN [auth |-> a, out |-> r]
    ELSE [auth |-> [a EXCEPT !.password = password], out |-> ReturnNone]

AllowedEncoding == {"ascii", "latin1"}

\* Auth.encoding setter
encoding_setter(a, encoding) ==
    IF StrTruthy(encoding) /\ encoding \in AllowedEncoding
    THEN [auth |-> [a EXCEPT !.encoding = encoding], out |-> ReturnNone]
    ELSE [auth |-> a, out |-> Raise("ApiEncodingFormatError")]

\* Auth.__init__: the three setters in turn; an exception of one ends the
\* construction and there is no object
AuthNew(username, password, encoding) ==
    LET blank == [kind |-> "Auth", username |-> NoneObj,
                  password |-> NoneObj, encoding |-> NoneStr]
        u == username_setter(blank, username)
        pw == password_setter(u.auth, password)
        e == encoding_setter(pw.auth, encoding)
    IN  IF IsRaise(u.out) THEN [auth |-> NoneObj, out |-> u.out]
        ELSE IF IsRaise(pw.out) THEN [auth |-> NoneObj, out |-> pw.out]
        ELSE IF IsRaise(e.out) THEN [auth |-> NoneObj, out |-> e.out]
        ELSE [auth |-> e.auth, out |-> ReturnNone]

\* the code point of the n-th character of the base64 alphabet
B64Char(n) ==
    IF n < 26 THEN 65 + n
    ELSE IF n < 52 THEN 97 + (n - 26)
    ELSE IF n < 62 THEN 48 + (n - 52)
    ELSE IF n = 62 THEN 43
    ELSE 47

RECURSIVE b64encode(_)
\* base64.b64encode(b).decode(): three bytes to four characters, "=" padding
b64encode(b) ==
    IF Len(b) = 0 THEN <<>>
    ELSE IF Len(b) = 1
    THEN <<B64Char(b[1] \div 4), B64Char((b[1] % 4) * 16), 61, 61>>
    ELSE IF Len(b) = 2
    THEN <<B64Char(b[1] \div 4),
           B64Char((b[1] % 4) * 16 + b[2] \div 16),
           B64Char((b[2] % 16) * 4), 61>>
    ELSE <<B64Char(b[1] \div 4),
           B64Char((b[1] % 4) * 16 + b[2] \div 16),
           B64Char((b[2] % 16) * 4 + b[3] \div 64),
           B64Char(b[3] % 64)>>
         \o b64encode(SubSeq(b, 4, Len(b)))

\* Auth.auth_str: base64 of "username:password" when both are non-empty
auth_str(a) ==
    IF CharsTruthy(a.username) /\ CharsTruthy(a.password)
    THEN Chars(b64encode(a.username.chars \o <<58>> \o a.password.chars))
    ELSE NoneObj

\* Auth.base_auth: f"Base {string}" (the code points of "Base ")
base_auth(a) ==
    LET string == auth_str(a) IN
    IF CharsTruthy(string) THEN Chars(<<66, 97, 115, 101, 32>> \o string.chars)
    ELSE string

(***************************************************************************)
(* The Auth specification: one Auth object, constructed and then changed   *)
(* through its setters and read through its properties                     *)
(***************************************************************************)
MaxStr == 2

\* the characters of the model: "p" and "é" (not ASCII)
CharCodes == {112, 233}
CharSeqs == UNION {[1..n -> CharCodes] : n \in 0..MaxStr}
StrValues == {Chars(cs) : cs \in CharSeqs} \cup {NoneObj}
Encodings == {"ascii", "latin1", "utf-8"}

AInit ==
    /\ HdrIdle
    /\ TokIdle
    /\ PathIdle
    /\ ClientIdle
    /\ UrlIdle
    /\ SessIdle
    /\ ApiIdle
    /\ authObj = NoneObj
    /\ authRes = NoResult

aothers == <<hvars, tvars, pvars, cvars, uvars, svars, xvars>>

\* auth = Auth(username, password, encoding)
AuthConstruct ==
    /\ authObj = NoneObj
    /\ \E username \in StrValues, password \in StrValues,
          encoding \in Encodings :
         LET r == AuthNew(username, password, encoding) IN
         /\ authObj' = r.auth
         /\ authRes' = [op |-> "init", username |-> username,
                        password |-> password, encoding |-> encoding,
                        out |-> r.out, before |-> authObj]
    /\ UNCHANGED aothers

\* auth.username = value
SetUsername ==
    /\ authObj # NoneObj
    /\ \E value \in StrValues :
         LET r == username_setter(authObj, value) IN
         /\ authObj' = r.auth
         /\ authRes' = [op |-> "username", value |-> value, out |-> r.out,
                        before |-> authObj]
    /\ UNCHANGED aothers

\* auth.password = value
SetPassword ==
    /\ authObj # NoneObj
    /\ \E value \in StrValues :
         LET r == password_setter(authObj, value) IN
         /\ authObj' = r.auth
         /\ authRes' = [op |-> "password", value |-> value, out |-> r.out,
                        before |-> authObj]
    /\ UNCHANGED aothers

\* auth.base_auth
ReadBaseAuth ==
    /\ authObj # NoneObj
    /\ authRes' = [op |-> "base_auth", out |-> base_auth(authObj)]
    /\ UNCHANGED authObj
    /\ UNCHANGED aothers

ANext == AuthConstruct \/ SetUsername \/ SetPassword \/ ReadBaseAuth

SpecAuth == AInit /\ [][ANext]_vars

\* a str with a character outside ASCII
NonAscii(value) ==
    /\ value # NoneObj
    /\ \E i \in 1..Len(value.chars) : value.chars[i] > 127

\* the error class auth.py raises for a credential that is not ASCII
AuthFormatErrorKind == "ApiUsernameFormatError"

C20_BasicAuthHeader ==
    (authRes # NoResult /\ authRes.op = "base_auth") =>
        authRes.out =
            IF CharsTruthy(authObj.username) /\ CharsTruthy(authObj.password)
            THEN Chars(<<66, 97, 115, 105, 99, 32>>
                       \o b64encode(authObj.username.chars \o <<58>>
                                    \o authObj.password.chars))
            ELSE NoneObj

(***************************************************************************)
(* The registry specification: one RestClient, any sequence of             *)
(* add_resource / remove_resource / get_resource                           *)
(***************************************************************************)
\* two Resources under each of three names
RegistryResources ==
    {ResourceObj(n, NoneObj, p, <<>>) : n \in {"users", "items", "orders"},
                                       p \in {"v1", "v2"}}
RegistryNames == {"users", "items", "orders", "nope"}

RInit ==
    /\ UrlIdle
    /\ SessIdle
    /\ AuthIdle
    /\ ApiIdle
    /\ HdrIdle
    /\ PathIdle
    /\ TokIdle
    /\ client = HTTPClientObj("http://h", NoneStr, NoneObj)
    /\ call = NoResult

rothers == <<hvars, pvars, tvars, uvars, svars, avars, xvars>>

\* client.add_resource(res)
RegAdd ==
    /\ \E res \in RegistryResources :
         /\ client' = add_resource(client, res)
         /\ call' = [op |-> "add_resource", args |-> res, out |-> NoneObj]
    /\ UNCHANGED rothers

\* client.remove_resource(res_name)
RegRemove ==
    /\ \E n \in RegistryNames :
         /\ client' = remove_resource(client, n)
         /\ call' = [op |-> "remove_resource", args |-> n,
                     out |-> remove_resource_out(client, n)]
    /\ UNCHANGED rothers

\* client.get_resource(resource_name)
RegGet ==
    /\ \E n \in RegistryNames :
         call' = [op |-> "get_resource", args |-> n,
                  out |-> get_resource(client, n)]
    /\ UNCHANGED client
    /\ UNCHANGED rothers

RNext == RegAdd \/ RegRemove \/ RegGet

SpecRegistry == RInit /\ [][RNext]_vars

\* the Resource registered under a name, or NoneObj
Registered(c, n) ==
    IF \E i \in 1..Len(c.resources) : c.resources[i][1] = n
    THEN (CHOOSE e \in {c.resources[i] : i \in 1..Len(c.resources)} :
              e[1] = n)[2]
    ELSE NoneObj

(***************************************************************************)
(* C23: the registry holds at most one Resource per name; add_resource     *)
(* makes its Resource the one registered under its name and touches no     *)
(* other name; remove_resource takes out the named entry only, returns it, *)
(* and for an unregistered name changes nothing and returns None;          *)
(* get_resource returns the registered Resource and changes nothing.       *)
(***************************************************************************)
C23_RegistryLatestWins ==
    [][ /\ \A i, j \in 1..Len(client'.resources) :
              i # j => client'.resources[i][1] # client'.resources[j][1]
        /\ call'.op = "add_resource" =>
              \A n \in RegistryNames :
                  Registered(client', n) =
                      IF n = call'.args.name THEN call'.args
                      ELSE Registered(client, n)
        /\ call'.op = "remove_resource" =>
              /\ call'.out = Registered(client, call'.args)
              /\ \A n \in RegistryNames :
                    Registered(client', n) =
                        IF n = call'.args THEN NoneObj
                        ELSE Registered(client, n)
              /\ Registered(client, call'.args) = NoneObj =>
                    /\ client' = client
                    /\ call'.out = NoneObj
        /\ call'.op = "get_resource" =>
              /\ client' = client
              /\ call'.out = Registered(client, call'.args)
      ]_vars

\* a name was added twice with different Resources and then looked up
C23_Witness ==
    /\ call # NoResult
    /\ call.op = "get_resource"
    /\ call.args = "users"
    /\ call.out = ResourceObj("users", NoneObj, "v2", <<>>)
    /\ Len(client.resources) = 2
    /\ client.resources[1][1] = "users"

(***************************************************************************)
(* C24: a make_request with auth_required and a valid token that reaches   *)
(* the transport carries Authorization = the token's value in its headers, *)
(* whether the caller passed headers or the client's stored ones are used. *)
(***************************************************************************)
C24_AuthRequiredSendsToken ==
    (Sent("make_request") /\ call.args.auth_required) =>
        DictGet(call.wire.headers, "Authorization") = client.token.token

(***************************************************************************)
(* C25: make_request leaves the client's stored header set as it was, and  *)
(* a request without auth_required and without a headers argument carries *)
(* no Authorization that an earlier request left behind.                   *)
(***************************************************************************)
C25_StoredHeadersUntouched ==
    /\ (call # NoResult /\ call.op = "make_request") =>
            client.headers = call.headersBefore
    /\ (Sent("make_request") /\ ~call.args.auth_required
            /\ call.args.headers = NoneObj) =>
            ~DictHas(call.wire.headers, "Authorization")

(***************************************************************************)
(* C26: a make_request whose transport call completes with a response      *)
(* returns a typed response or raises DataValidationError or               *)
(* DataFormatError, whatever the body, the empty body included.            *)
(***************************************************************************)
C26_CompletedCallIsClassified ==
    \A i \in Tasks :
        (/\ Done(i)
         /\ flights[i].op = "make_request"
         /\ flights[i].reply.kind = "response") =>
            \/ /\ flights[i].out.kind = "return"
               /\ flights[i].out.value.kind = "Response"
            \/ /\ IsRaise(flights[i].out)
               /\ flights[i].out.exc \in {"DataValidationError",
                                          "DataFormatError"}

(***************************************************************************)
(* C27: a request on an Action that was created without headers composes   *)
(* its headers without error and goes to the transport with the merge of   *)
(* the client's and the resource's headers.                                *)
(***************************************************************************)
C27_ActionWithoutHeadersIsSent ==
    (call # NoResult /\ call.op = "request") =>
        LET res == get_resource(client, call.args.resource_name)
            h == get_action_attr(res, call.args.action_name, "headers")
            url_part == get_url_part(res, call.args.action_name,
                                     call.args.obj_name, call.args.args)
        IN  (/\ res # NoneObj
             /\ ~IsRaise(h)
             /\ h.v = NoneObj
             /\ ~IsRaise(url_part)) =>
                /\ call.wire # NoneObj
                /\ call.wire.headers =
                       HttpHeadersAdd(call.headersBefore,
                                      HttpHeadersObj(res.headers)).headers

(***************************************************************************)
(* C28: constructing a RestClient without auth succeeds and gives a client *)
(* whose stored auth is None.                                              *)
(***************************************************************************)
C28_ConstructWithoutAuth ==
    (/\ closeRes # NoResult
     /\ closeRes.op = "__init__"
     /\ closeRes.auth = NoneObj) =>
        /\ closeRes.out = ReturnNone
        /\ owner # NoneObj
        /\ owner.auth = NoneObj

(***************************************************************************)
(* BaseAPIClient, RequestService and AiohttpSessionHolder                  *)
(* (client/test_client/core)                                               *)
(*                                                                         *)
(* Objects are held by identity: a RequestService is its index in          *)
(* api.services, where the state of its session holder is kept; an         *)
(* aiohttp.ClientSession is its index in api.sessions. 0 is None.          *)
(***************************************************************************)
\* AiohttpSessionHolder.__init__: no session yet, not closed
HolderNew == [session |-> 0, closed |-> FALSE]

\* BaseAPIClient.__init__: no request service yet
BaseAPIClientNew(factory) ==
    [request_service |-> 0, factory |-> factory, services |-> <<>>,
     sessions |-> <<>>, calls |-> 0]

\* self._request_service = <the service create_request_service returned>:
\* the assignment is made whatever _request_service holds by then
store_request_service(a) ==
    [a EXCEPT !.services = Append(@, HolderNew),
              !.request_service = Len(a.services) + 1]

\* AiohttpSessionHolder._session_in_working_order of service v's holder
holder_in_working_order(a, v) ==
    /\ a.services[v].session # 0
    /\ ~a.sessions[a.services[v].session].closed

\* AiohttpSessionHolder.get_session of service v's holder: the session it
\* holds if that is open, else a new one (_instantiate_new_session)
get_session(a, v) ==
    IF holder_in_working_order(a, v)
    THEN [api |-> a, session |-> a.services[v].session]
    ELSE [api |-> [a EXCEPT !.sessions = Append(@, [closed |-> FALSE]),
                            !.services[v].session = Len(a.sessions) + 1],
          session |-> Len(a.sessions) + 1]

\* aiohttp.ClientSession.__aexit__: the session is closed
client_session_aexit(a, s) == [a EXCEPT !.sessions[s].closed = TRUE]

\* AiohttpSessionHolder.close of service v's holder
api_holder_close(a, v) ==
    LET a1 == IF holder_in_working_order(a, v)
              THEN [a EXCEPT !.sessions[a.services[v].session].closed = TRUE]
              ELSE a
    IN  [a1 EXCEPT !.services[v].closed = TRUE]

TaskIdle == [pc |-> "idle", kind |-> "none", svc |-> 0, session |-> 0]

\* the wrapped method m, or the rest of __aenter__, run by a task once
\* _request_service is set. An API method goes through execute_api_method to
\* RequestService.send_request, which takes the holder's session, enters it
\* (async with) and waits for session.request; __aenter__ returns self.
run_after_check(a, kind) ==
    IF kind = "__aenter__"
    THEN [api |-> a,
          task |-> [pc |-> "done", kind |-> kind,
                    svc |-> a.request_service, session |-> 0]]
    ELSE LET g == get_session(a, a.request_service) IN
         [api |-> g.api,
          task |-> [pc |-> "inflight", kind |-> kind,
                    svc |-> a.request_service, session |-> g.session]]

(***************************************************************************)
(* The API client specification: one BaseAPIClient, MaxTasks asyncio tasks *)
(* that call its API methods and __aenter__, and close()                   *)
(***************************************************************************)
MaxCalls == 3   \* calls started on the client in one behaviour

\* the request service factory: none (the subclass's _create_request_service),
\* a plain function, or a coroutine function
Factories == {"default", "sync", "async"}

XInit ==
    /\ UrlIdle
    /\ SessIdle
    /\ AuthIdle
    /\ HdrIdle
    /\ PathIdle
    /\ TokIdle
    /\ ClientIdle
    /\ \E f \in Factories : api = BaseAPIClientNew(f)
    /\ tasks = [i \in Tasks |-> TaskIdle]

xothers == <<hvars, pvars, tvars, cvars, uvars, svars, avars>>

\* a task calls an API method (check_request_service_before_execute) or
\* __aenter__: with no request service set it awaits create_request_service,
\* and a coroutine factory may suspend the task there
ApiCallStart(i) ==
    /\ tasks[i].pc = "idle"
    /\ api.calls < MaxCalls
    /\ \E kind \in {"method", "__aenter__"}, suspends \in BOOLEAN :
         LET a == [api EXCEPT !.calls = @ + 1] IN
         IF a.request_service = 0 /\ a.factory = "async" /\ suspends
         THEN /\ api' = a
              /\ tasks' = [tasks EXCEPT ![i] = [TaskIdle EXCEPT
                                                   !.pc = "creating",
                                                   !.kind = kind]]
         ELSE LET r == run_after_check(
                           IF a.request_service = 0
                           THEN store_request_service(a) ELSE a,
                           kind) IN
              /\ api' = r.api
              /\ tasks' = [tasks EXCEPT ![i] = r.task]
    /\ UNCHANGED xothers

\* the factory's coroutine finishes: the task stores the service and goes on
ApiCreateDone(i) ==
    /\ tasks[i].pc = "creating"
    /\ LET r == run_after_check(store_request_service(api), tasks[i].kind) IN
         /\ api' = r.api
         /\ tasks' = [tasks EXCEPT ![i] = r.task]
    /\ UNCHANGED xothers

\* session.request ends, with a response or an exception: send_request
\* leaves its async with block
ApiTransportEnds(i) ==
    /\ tasks[i].pc = "inflight"
    /\ api' = client_session_aexit(api, tasks[i].session)
    /\ tasks' = [tasks EXCEPT ![i].pc = "done"]
    /\ UNCHANGED xothers

\* the task has the outcome of its call
ApiTaskGoesOn(i) ==
    /\ tasks[i].pc = "done"
    /\ tasks' = [tasks EXCEPT ![i] = TaskIdle]
    /\ UNCHANGED api
    /\ UNCHANGED xothers

\* await client.close(): RequestService.shutdown of the service set
ApiClose ==
    /\ api.request_service # 0
    /\ ~api.services[api.request_service].closed
    /\ api' = api_holder_close(api, api.request_service)
    /\ UNCHANGED tasks
    /\ UNCHANGED xothers

XNext ==
    \/ \E i \in Tasks : ApiCallStart(i)
    \/ \E i \in Tasks : ApiCreateDone(i)
    \/ \E i \in Tasks : ApiTransportEnds(i)
    \/ \E i \in Tasks : ApiTaskGoesOn(i)
    \/ ApiClose

SpecApi == XInit /\ [][XNext]_vars

(***************************************************************************)
(* C29: whatever the interleaving of API-method calls and __aenter__ on a  *)
(* client with no request service yet, only one request service is ever    *)
(* created and every call uses the one the client holds.                   *)
(***************************************************************************)
C29_ServiceCreatedOnce ==
    /\ Len(api.services) <= 1
    /\ \A i \in Tasks :
           tasks[i].svc # 0 => tasks[i].svc = api.request_service

(***************************************************************************)
(* C30: a request in flight has its session open unless shutdown was       *)
(* called on its service, and until shutdown every send_request of a       *)
(* service uses the same session.                                          *)
(***************************************************************************)
C30_SessionSharedWhileInFlight ==
    /\ \A i \in Tasks :
           (tasks[i].pc = "inflight"
               /\ ~api.services[tasks[i].svc].closed) =>
               ~api.sessions[tasks[i].session].closed
    /\ (\A v \in 1..Len(api.services) : ~api.services[v].closed) =>
           Len(api.sessions) <= Len(api.services)

====
